---- MODULE Spec2Model ----
(***************************************************************************)
(* Token-bucket rate limiter (src/exe.cpp): TokenBucket cells, the         *)
(* RateLimiter client registry, the statistics counters, the cleanup       *)
(* thread and shutdown.  Time, token levels and refill rates are integers. *)
(* Threads are the workers calling the public operations, the cleanup      *)
(* thread and the thread that owns (and finally destroys) the limiter.     *)
(* A critical section that takes one mutex and cannot block inside is one  *)
(* atomic action guarded by that mutex being free; cleanup() and reset()   *)
(* hold clientsMutex_ over several steps.  Cells live at heap addresses:   *)
(* the registry owns them, callers hold raw addresses.                     *)
(***************************************************************************)
EXTENDS Integers, Sequences, FiniteSets, TLC

\* ---- configuration (RateLimiterConfig) ----
MaxClients == 2
DefaultBucketSize == 2
DefaultRefillRate == 1
CleanupInterval == 1
LatencyCap == 1000

\* ---- bounds ----
NumWorkers == 2
MaxTime == 2
MaxOps == 3
MaxCount == 2
MaxLatency == 2
MaxSize == 3
MaxRate == 2
MaxCalls == 3

Clients == 1..(MaxClients + 1)
Workers == 1..NumWorkers
Sweeper == NumWorkers + 1
NoThread == 0
Addrs == 1..(MaxClients + 1)
NullPtr == 0
NoCell == [tokens |-> -1]
NoLimit == <<>>
\* the client whose requests are counted (hCalls, hTrue); the only one a
\* configuration gives refill rate 0
Tracked == CHOOSE c \in Clients : \A d \in Clients : c <= d
\* the parameters updateClientLimit is called with, and the clientLimits the
\* configuration carries at construction: Tracked is given (2, 0), the others
\* fall back to the defaults
Limits == {<<1, 0>>}
InitLimits == {[c \in Clients |-> IF c = Tracked THEN <<2, 0>> ELSE NoLimit]}
Counts == {0, MaxCount}
Latencies == 1..MaxLatency

Min(a, b) == IF a < b THEN a ELSE b

\* bookkeeping values: no request accepted at any time yet; no time
NoneAccepted == [t \in 0..MaxTime |-> 0]
Never == 0 - 1

VARIABLES now, heap, clients, activeClients, clientLimits, enableMetrics,
          totalRequests, acceptedRequests, rejectedRequests, totalLatency,
          latencyMeasurements, clientsMutex, wk, spc, swake, sthreshold,
          stodo, shutdownFlag, mpc, ops,
          cellMutex,
          hCalls, hTrue, hDisturbed, hAccAt, hOnlyRequests, hExhaustedAt,
          hLastUpdate, hLastRet, hRefused, hEvicted, hSweepsAfterFlag,
          hResetAlone

vars == <<now, heap, clients, activeClients, clientLimits, enableMetrics,
          totalRequests, acceptedRequests, rejectedRequests, totalLatency,
          latencyMeasurements, clientsMutex, wk, spc, swake, sthreshold,
          stodo, shutdownFlag, mpc, ops,
          cellMutex,
          hCalls, hTrue, hDisturbed, hAccAt, hOnlyRequests, hExhaustedAt,
          hLastUpdate, hLastRet, hRefused, hEvicted, hSweepsAfterFlag,
          hResetAlone>>

regVars == <<heap, clients, activeClients>>
cfgVars == <<clientLimits, enableMetrics>>
statVars == <<totalRequests, acceptedRequests, rejectedRequests, totalLatency,
              latencyMeasurements>>
sweeperVars == <<spc, swake, sthreshold, stodo>>
mainVars == <<shutdownFlag, mpc>>
callVars == <<hCalls, hTrue, hDisturbed, hAccAt, hOnlyRequests, hExhaustedAt>>
noteVars == <<hLastUpdate, hLastRet, hRefused, hEvicted, hSweepsAfterFlag>>

\* ---- TokenBucket ----
NewCell(size, rate, t) ==
    [tokens |-> size, bucketSize |-> size, refillRate |-> rate,
     lastRefill |-> t, totalRequests |-> 0, acceptedRequests |-> 0]

\* (variant: a refill pass tops the bucket up whatever the rate)
RefillTokensToFull(cell, t) ==
    [cell EXCEPT !.tokens = cell.bucketSize, !.lastRefill = t]
\* (variant: the sum is not clamped to the bucket size)
RefillTokensUnclamped(cell, t) ==
    LET timePassed == t - cell.lastRefill IN
    IF timePassed > 0
    THEN [cell EXCEPT !.tokens = cell.tokens + timePassed * cell.refillRate,
                      !.lastRefill = t]
    ELSE cell
RefillTokens(cell, t) ==
    LET timePassed == t - cell.lastRefill IN
    IF timePassed > 0
    THEN [cell EXCEPT !.tokens = Min(cell.tokens + timePassed * cell.refillRate,
                                     cell.bucketSize),
                      !.lastRefill = t]
    ELSE cell

\* (variant: the token level is not looked at)
ConsumeAcceptsAlways(cell, tokensNeeded) == TRUE
ConsumeAccepts(cell, tokensNeeded) == cell.tokens >= tokensNeeded

Consume(cell, tokensNeeded, t) ==
    LET r == RefillTokens(cell, t)
        c1 == [r EXCEPT !.totalRequests = r.totalRequests + 1] IN
    IF ConsumeAccepts(c1, tokensNeeded)
    THEN [cell |-> [c1 EXCEPT !.tokens = c1.tokens - tokensNeeded,
                              !.acceptedRequests = c1.acceptedRequests + 1],
          ok |-> TRUE]
    ELSE [cell |-> c1, ok |-> FALSE]

\* (variant: the counters are zeroed, the tokens are left as they are)
CellResetCountersOnly(cell, t) ==
    [cell EXCEPT !.lastRefill = t, !.totalRequests = 0, !.acceptedRequests = 0]
CellReset(cell, t) ==
    [cell EXCEPT !.tokens = cell.bucketSize, !.lastRefill = t,
                 !.totalRequests = 0, !.acceptedRequests = 0]

GetLastAccess(cell) == cell.lastRefill

\* getStatistics: the cell is refilled, then read
GetStatistics(cell, t) ==
    LET r == RefillTokens(cell, t) IN
    [tokensRemaining |-> r.tokens, bucketSize |-> r.bucketSize,
     refillRate |-> r.refillRate, totalRequests |-> r.totalRequests,
     acceptedRequests |-> r.acceptedRequests]

\* ---- registry helpers ----
Registered == {c \in Clients : clients[c] # NullPtr}
FreeAddrs == {a \in Addrs : heap[a] = NoCell}
\* make_unique: the allocator hands out the first free block, so a freed
\* block is the next one handed out
Allocate == CHOOSE a \in FreeAddrs : \A b \in FreeAddrs : a <= b
\* (variant: the lookup misses an entry that is there)
FoundNever(c) == FALSE
Found(c) == clients[c] # NullPtr
\* (variant: the capacity check is off by one)
AtCapacityOffByOne == Cardinality(Registered) > MaxClients
AtCapacity == Cardinality(Registered) >= MaxClients
\* (variant: the override table is not consulted)
ResolveLimitDefault(c) == <<DefaultBucketSize, DefaultRefillRate>>
ResolveLimit(c) ==
    IF clientLimits[c] # NoLimit THEN clientLimits[c]
    ELSE <<DefaultBucketSize, DefaultRefillRate>>

IdleWorker == [pc |-> "idle", op |-> "none", client |-> 0, count |-> 0,
               bucket |-> NullPtr, allowed |-> FALSE, dangling |-> FALSE,
               latency |-> 0, todo |-> {}]

\* destroying the cell at address a leaves every raw pointer to it dangling
MarkDangling(w, a) ==
    [x \in Workers |->
        IF a # NullPtr /\ w[x].pc \in {"consume", "consuming"} /\ w[x].bucket = a
        THEN [w[x] EXCEPT !.dangling = TRUE] ELSE w[x]]

FreeCell(h, a) == IF a = NullPtr THEN h ELSE [h EXCEPT ![a] = NoCell]

\* the cell's mutex_ goes with the cell
DestroyMutex(m, a) == IF a = NullPtr THEN m ELSE [m EXCEPT ![a] = NoThread]

InitCommon ==
    /\ now = 0
    /\ clientLimits \in InitLimits
    /\ totalRequests = 0 /\ acceptedRequests = 0 /\ rejectedRequests = 0
    /\ totalLatency = 0
    /\ latencyMeasurements = <<>>
    /\ clientsMutex = NoThread
    /\ wk = [w \in Workers |-> IdleWorker]
    /\ spc = "loop" /\ swake = 0 /\ sthreshold = 0 /\ stodo = {}
    /\ shutdownFlag = FALSE
    /\ mpc = "running"
    /\ ops = 0
    /\ cellMutex = [a \in Addrs |-> NoThread]
    /\ hCalls = 0 /\ hTrue = 0 /\ hDisturbed = FALSE
    /\ hAccAt = NoneAccepted /\ hOnlyRequests = TRUE
    /\ hExhaustedAt = Never
    /\ hResetAlone = FALSE
    /\ hLastUpdate = [c \in Clients |-> NoLimit]
    /\ hLastRet = FALSE
    /\ hRefused = 0
    /\ hEvicted = {}
    /\ hSweepsAfterFlag = 0

\* the registry right after construction
InitEmpty ==
    /\ heap = [a \in Addrs |-> NoCell]
    /\ clients = [c \in Clients |-> NullPtr]
    /\ activeClients = 0

\* a limiter constructed with enableMetrics = false
Init == InitCommon /\ InitEmpty /\ enableMetrics = FALSE

\* a limiter constructed with the default enableMetrics = true
InitMetrics == InitCommon /\ InitEmpty /\ enableMetrics = TRUE

\* the same limiter after allowRequests(2, 0) and allowRequests(3, 0) at time 0:
\* the registry is full, each cell has served one request of no tokens
BusyCell == Consume(NewCell(DefaultBucketSize, DefaultRefillRate, 0), 0, 0).cell
InitBusy ==
    /\ InitCommon
    /\ enableMetrics = FALSE
    /\ heap = [a \in Addrs |-> IF a <= MaxClients THEN BusyCell ELSE NoCell]
    /\ clients = [c \in Clients |-> IF c = Tracked THEN NullPtr ELSE c - 1]
    /\ activeClients = MaxClients

\* ---- bookkeeping of what has been asked of client Tracked (not program state) ----
\* disturb: its cell was reset, removed, re-limited, evicted or batch-consumed,
\* or a request for it was refused for capacity; managed: the disturbance was
\* a reset, removeClient, updateClientLimit or allowRequests; call: an
\* allowRequest for it got its verdict ok
Hist(disturb, managed, call, ok) ==
    /\ hOnlyRequests' = (hOnlyRequests /\ ~managed)
    /\ hAccAt' = IF ~hOnlyRequests \/ managed THEN NoneAccepted
                 ELSE IF call /\ ok THEN [hAccAt EXCEPT ![now] = @ + 1]
                 ELSE hAccAt
    /\ hExhaustedAt' = hExhaustedAt
    /\ hDisturbed' = (hDisturbed \/ disturb)
    /\ hCalls' = IF hDisturbed \/ disturb THEN 0
                 ELSE hCalls + (IF call THEN 1 ELSE 0)
    /\ hTrue' = IF hDisturbed \/ disturb THEN 0
                ELSE hTrue + (IF call /\ ok THEN 1 ELSE 0)

\* the steady clock advances
Tick ==
    /\ now < MaxTime
    /\ now' = now + 1
    /\ UNCHANGED <<regVars, cfgVars, statVars, clientsMutex, cellMutex, wk,
                   sweeperVars, mainVars, ops, callVars, noteVars, hResetAlone>>

\* (variant: the capacity check is skipped for a client with an override)
GetOrCreateBucketOverrideFirst(c, ptr) ==
    IF Found(c)
    THEN /\ ptr = clients[c]
         /\ UNCHANGED regVars
    ELSE IF AtCapacity /\ clientLimits[c] = NoLimit
    THEN /\ ptr = NullPtr
         /\ UNCHANGED regVars
    ELSE /\ FreeAddrs # {}
         /\ ptr = Allocate
         /\ heap' = [FreeCell(heap, clients[c]) EXCEPT
                        ![ptr] = NewCell(ResolveLimit(c)[1], ResolveLimit(c)[2], now)]
         /\ clients' = [clients EXCEPT ![c] = ptr]
         /\ activeClients' = activeClients + 1

\* ---- getOrCreateBucket: find, capacity check, insert ----
GetOrCreateBucket(c, ptr) ==
    IF Found(c)
    THEN /\ ptr = clients[c]
         /\ UNCHANGED regVars
    ELSE IF AtCapacity
    THEN /\ ptr = NullPtr
         /\ UNCHANGED regVars
    ELSE /\ FreeAddrs # {}
         /\ ptr = Allocate
         /\ heap' = [FreeCell(heap, clients[c]) EXCEPT
                        ![ptr] = NewCell(ResolveLimit(c)[1], ResolveLimit(c)[2], now)]
         /\ clients' = [clients EXCEPT ![c] = ptr]
         /\ activeClients' = activeClients + 1

\* the cell the assignment clients_[clientId] = ... destroyed, if any
Replaced(c) == IF clients'[c] # clients[c] THEN clients[c] ELSE NullPtr

\* a worker calls a public operation; one that needs clientsMutex_ gets it
CanStart(w) ==
    /\ wk[w].pc = "idle"
    /\ mpc = "running"
    /\ ops < MaxOps
    /\ clientsMutex = NoThread

\* allowRequest: allowRequestInternal's getOrCreateBucket; a null bucket is a
\* rejection, and with metrics off the call then returns at once
AllowRequestGet(w, c) ==
    /\ CanStart(w)
    /\ hResetAlone' = FALSE
    /\ \E ptr \in Addrs \cup {NullPtr} :
        /\ GetOrCreateBucket(c, ptr)
        /\ wk' = [MarkDangling(wk, Replaced(c)) EXCEPT ![w] =
                    IF ptr # NullPtr
                    THEN [IdleWorker EXCEPT !.pc = "consume",
                            !.op = "allowRequest", !.client = c, !.count = 1,
                            !.bucket = ptr]
                    ELSE IF enableMetrics
                    THEN [IdleWorker EXCEPT !.pc = "statTotal",
                            !.op = "allowRequest", !.client = c]
                    ELSE IdleWorker]
        /\ Hist(c = Tracked /\ ptr = NullPtr, FALSE, FALSE, FALSE)
        /\ hLastRet' = IF ptr = NullPtr /\ ~enableMetrics THEN FALSE ELSE hLastRet
        /\ hRefused' = IF ptr = NullPtr THEN c ELSE hRefused
    /\ ops' = ops + 1
    /\ UNCHANGED <<now, cellMutex, cfgVars, statVars, clientsMutex, sweeperVars, mainVars,
                   hLastUpdate, hEvicted, hSweepsAfterFlag>>

\* allowRequests(clientId, count): getOrCreateBucket, then consume(count) or false
AllowRequestsGet(w, c, n) ==
    /\ CanStart(w)
    /\ hResetAlone' = FALSE
    /\ \E ptr \in Addrs \cup {NullPtr} :
        /\ GetOrCreateBucket(c, ptr)
        /\ wk' = [MarkDangling(wk, Replaced(c)) EXCEPT ![w] =
                    IF ptr # NullPtr
                    THEN [IdleWorker EXCEPT !.pc = "consume",
                            !.op = "allowRequests", !.client = c, !.count = n,
                            !.bucket = ptr]
                    ELSE IdleWorker]
        /\ hLastRet' = IF ptr = NullPtr THEN FALSE ELSE hLastRet
        /\ hRefused' = IF ptr = NullPtr THEN c ELSE hRefused
    /\ Hist(c = Tracked, c = Tracked, FALSE, FALSE)
    /\ ops' = ops + 1
    /\ UNCHANGED <<now, cellMutex, cfgVars, statVars, clientsMutex, sweeperVars, mainVars,
                   hLastUpdate, hEvicted, hSweepsAfterFlag>>

\* bucket->consume(n) through the raw pointer getOrCreateBucket returned.  The
\* pointer may dangle: the memory then holds whatever cell was allocated there
\* since, or none, in which case the verdict is whatever the read yields.
ConsumeBody(w) ==
    LET ptr == wk[w].bucket
        isAllow == wk[w].op = "allowRequest"
        next(ok) == IF isAllow /\ enableMetrics
                    THEN [IdleWorker EXCEPT !.pc = "statTotal",
                             !.op = "allowRequest", !.client = wk[w].client,
                             !.allowed = ok]
                    ELSE IdleWorker
        ret(ok) == IF isAllow /\ enableMetrics THEN hLastRet ELSE ok
        call == isAllow /\ wk[w].client = Tracked IN
    IF heap[ptr] = NoCell
    THEN /\ \E ok \in BOOLEAN :
             /\ wk' = [wk EXCEPT ![w] = next(ok)]
             /\ Hist(FALSE, FALSE, call, ok)
             /\ hLastRet' = ret(ok)
         /\ UNCHANGED heap
    ELSE LET r == Consume(heap[ptr], wk[w].count, now) IN
         /\ heap' = [heap EXCEPT ![ptr] = r.cell]
         /\ wk' = [wk EXCEPT ![w] = next(r.ok)]
         /\ Hist(FALSE, FALSE, call, r.ok)
         /\ hLastRet' = ret(r.ok)

\* consume as one step: lock the cell's mutex_ (free), run, unlock
ConsumeStep(w) ==
    /\ wk[w].pc = "consume"
    /\ cellMutex[wk[w].bucket] = NoThread
    /\ ConsumeBody(w)
    /\ UNCHANGED <<now, cellMutex, hResetAlone, clients, activeClients, cfgVars,
                   statVars, clientsMutex, sweeperVars, mainVars, ops,
                   hLastUpdate, hRefused, hEvicted, hSweepsAfterFlag>>

\* consume in two steps.  lock_guard(mutex_): the caller waits until the cell's
\* mutex is free.  On a destroyed cell the lock is undefined: it returns, or
\* the caller waits for ever on what the freed memory holds.
ConsumeLock(w) ==
    /\ wk[w].pc = "consume"
    /\ LET ptr == wk[w].bucket IN
        IF heap[ptr] # NoCell
        THEN /\ cellMutex[ptr] = NoThread
             /\ cellMutex' = [cellMutex EXCEPT ![ptr] = w]
             /\ wk' = [wk EXCEPT ![w].pc = "consuming"]
        ELSE /\ \E returns \in BOOLEAN :
                 wk' = [wk EXCEPT ![w].pc = IF returns THEN "consuming"
                                            ELSE "hung"]
             /\ UNCHANGED cellMutex
    /\ UNCHANGED <<now, hResetAlone, regVars, cfgVars, statVars, clientsMutex,
                   sweeperVars, mainVars, ops, callVars, noteVars>>

\* the body of consume, then the lock_guard releases the cell's mutex
ConsumeUnlock(w) ==
    /\ wk[w].pc = "consuming"
    /\ ConsumeBody(w)
    /\ cellMutex' = [cellMutex EXCEPT ![wk[w].bucket] =
                        IF @ = w THEN NoThread ELSE @]
    /\ UNCHANGED <<now, hResetAlone, clients, activeClients, cfgVars,
                   statVars, clientsMutex, sweeperVars, mainVars, ops,
                   hLastUpdate, hRefused, hEvicted, hSweepsAfterFlag>>

\* allowRequest, metrics enabled: stats_.totalRequests++
StatTotal(w) ==
    /\ wk[w].pc = "statTotal"
    /\ totalRequests' = totalRequests + 1
    /\ wk' = [wk EXCEPT ![w].pc = "statVerdict"]
    /\ UNCHANGED <<now, cellMutex, hResetAlone, regVars, cfgVars, acceptedRequests, rejectedRequests,
                   totalLatency, latencyMeasurements, clientsMutex, sweeperVars,
                   mainVars, ops, callVars, noteVars>>

\* stats_.acceptedRequests++ or stats_.rejectedRequests++
StatVerdict(w) ==
    /\ wk[w].pc = "statVerdict"
    /\ acceptedRequests' = acceptedRequests + (IF wk[w].allowed THEN 1 ELSE 0)
    /\ rejectedRequests' = rejectedRequests + (IF wk[w].allowed THEN 0 ELSE 1)
    /\ wk' = [wk EXCEPT ![w].pc = "latency"]
    /\ UNCHANGED <<now, cellMutex, hResetAlone, regVars, cfgVars, totalRequests, totalLatency,
                   latencyMeasurements, clientsMutex, sweeperVars, mainVars,
                   ops, callVars, noteVars>>

\* (variant: beyond the cap the newest sample is dropped)
PushLatencyDropNewest(buf, latency) ==
    IF Len(buf) >= LatencyCap THEN buf ELSE Append(buf, latency)
PushLatency(buf, latency) ==
    LET b == Append(buf, latency) IN
    IF Len(b) > LatencyCap THEN Tail(b) ELSE b

\* the latencyMutex_ block: push_back, drop the oldest beyond the cap
RecordLatency(w) ==
    /\ wk[w].pc = "latency"
    /\ \E latency \in Latencies :
        /\ latencyMeasurements' = PushLatency(latencyMeasurements, latency)
        /\ wk' = [wk EXCEPT ![w].pc = "latencySum", ![w].latency = latency]
    /\ UNCHANGED <<now, cellMutex, hResetAlone, regVars, cfgVars, totalRequests, acceptedRequests,
                   rejectedRequests, totalLatency, clientsMutex, sweeperVars,
                   mainVars, ops, callVars, noteVars>>

\* stats_.totalLatency.fetch_add(latency); return allowed
AddLatency(w) ==
    /\ wk[w].pc = "latencySum"
    /\ totalLatency' = totalLatency + wk[w].latency
    /\ hLastRet' = wk[w].allowed
    /\ wk' = [wk EXCEPT ![w] = IdleWorker]
    /\ UNCHANGED <<now, cellMutex, hResetAlone, regVars, cfgVars, totalRequests, acceptedRequests,
                   rejectedRequests, latencyMeasurements, clientsMutex,
                   sweeperVars, mainVars, ops, callVars, hLastUpdate,
                   hRefused, hEvicted, hSweepsAfterFlag>>

\* updateClientLimit: store the override, erase the entry (no counter update)
UpdateClientLimit(w, c, lim) ==
    /\ CanStart(w)
    /\ hResetAlone' = FALSE
    /\ clientLimits' = [clientLimits EXCEPT ![c] = lim]
    /\ clients' = [clients EXCEPT ![c] = NullPtr]
    /\ heap' = FreeCell(heap, clients[c])
    /\ cellMutex' = DestroyMutex(cellMutex, clients[c])
    /\ wk' = MarkDangling(wk, clients[c])
    /\ Hist(c = Tracked, c = Tracked, FALSE, FALSE)
    /\ hLastUpdate' = [hLastUpdate EXCEPT ![c] = lim]
    /\ ops' = ops + 1
    /\ UNCHANGED <<now, activeClients, enableMetrics, statVars, clientsMutex,
                   sweeperVars, mainVars, hLastRet, hRefused, hEvicted,
                   hSweepsAfterFlag>>

\* removeClient: erase; the counter follows only when an entry was erased
RemoveClient(w, c) ==
    /\ CanStart(w)
    /\ hResetAlone' = FALSE
    /\ clients' = [clients EXCEPT ![c] = NullPtr]
    /\ heap' = FreeCell(heap, clients[c])
    /\ cellMutex' = DestroyMutex(cellMutex, clients[c])
    /\ activeClients' = IF Found(c) THEN activeClients - 1 ELSE activeClients
    /\ wk' = MarkDangling(wk, clients[c])
    /\ Hist(c = Tracked /\ Found(c), c = Tracked /\ Found(c), FALSE, FALSE)
    /\ ops' = ops + 1
    /\ UNCHANGED <<now, cfgVars, statVars, clientsMutex, sweeperVars, mainVars,
                   noteVars>>

\* what getClientStatistics returns
ClientView(c) ==
    IF Found(c)
    THEN GetStatistics(heap[clients[c]], now)
    ELSE [tokensRemaining |-> 0, bucketSize |-> DefaultBucketSize,
          refillRate |-> DefaultRefillRate, totalRequests |-> 0,
          acceptedRequests |-> 0]

\* getActiveClients
GetActiveClients == Registered

\* getClientStatistics: TokenBucket::getStatistics refills the cell it reads
GetClientStatistics(w, c) ==
    /\ CanStart(w)
    /\ hResetAlone' = FALSE
    /\ Found(c) => cellMutex[clients[c]] = NoThread
    /\ heap' = IF Found(c)
               THEN [heap EXCEPT ![clients[c]] = RefillTokens(@, now)]
               ELSE heap
    /\ ops' = ops + 1
    /\ UNCHANGED <<now, cellMutex, clients, activeClients, cfgVars, statVars,
                   clientsMutex, wk, sweeperVars, mainVars, callVars,
                   noteVars>>

\* std::sort of a copy of the samples
RECURSIVE Insert(_, _)
Insert(x, sorted) ==
    IF sorted = <<>> \/ x <= Head(sorted) THEN <<x>> \o sorted
    ELSE <<Head(sorted)>> \o Insert(x, Tail(sorted))
RECURSIVE Sort(_)
Sort(samples) ==
    IF samples = <<>> THEN <<>> ELSE Insert(Head(samples), Sort(Tail(samples)))

\* getLatencyPercentiles: P50, P90, P95, P99, P99.9 (per mille of size - 1,
\* truncated), five zeros for an empty buffer
Percentiles == <<500, 900, 950, 990, 999>>
GetLatencyPercentiles(samples) ==
    IF samples = <<>> THEN <<0, 0, 0, 0, 0>>
    ELSE LET measurements == Sort(samples) IN
         [i \in 1..5 |->
            measurements[((Percentiles[i] * (Len(measurements) - 1)) \div 1000) + 1]]

\* getClientStatistics in two steps: lock clientsMutex_ and find the entry
\* (none: the default view is returned at once) ...
StatisticsLock(w, c) ==
    /\ CanStart(w)
    /\ hResetAlone' = FALSE
    /\ IF Found(c)
       THEN /\ clientsMutex' = w
            /\ wk' = [wk EXCEPT ![w] =
                        [IdleWorker EXCEPT !.pc = "statsCell",
                            !.op = "getClientStatistics", !.client = c,
                            !.bucket = clients[c]]]
       ELSE UNCHANGED <<clientsMutex, wk>>
    /\ ops' = ops + 1
    /\ UNCHANGED <<now, cellMutex, regVars, cfgVars, statVars, sweeperVars,
                   mainVars, callVars, noteVars>>

\* ... then it->second->getStatistics(): the caller waits for the cell's
\* mutex with clientsMutex_ held, reads, and both locks go
StatisticsRead(w) ==
    /\ wk[w].pc = "statsCell"
    /\ cellMutex[wk[w].bucket] = NoThread
    /\ heap' = [heap EXCEPT ![wk[w].bucket] = RefillTokens(@, now)]
    /\ clientsMutex' = NoThread
    /\ wk' = [wk EXCEPT ![w] = IdleWorker]
    /\ UNCHANGED <<now, cellMutex, hResetAlone, clients, activeClients,
                   cfgVars, statVars, sweeperVars, mainVars, ops, callVars,
                   noteVars>>

\* ---- reset(): clientsMutex_ is held from the first line to the last ----
ResetLock(w) ==
    /\ CanStart(w)
    /\ clientsMutex' = w
    /\ hResetAlone' = (\A x \in Workers \ {w} : wk[x].pc = "idle")
    /\ wk' = [wk EXCEPT ![w] = [IdleWorker EXCEPT !.pc = "resetCells",
                                    !.op = "reset", !.todo = Registered]]
    /\ Hist(Found(Tracked), Found(Tracked), FALSE, FALSE)
    /\ ops' = ops + 1
    /\ UNCHANGED <<now, cellMutex, regVars, cfgVars, statVars, sweeperVars, mainVars,
                   noteVars>>

\* one iteration of the loop over clients_: pair.second->reset()
ResetCell(w, c) ==
    /\ wk[w].pc = "resetCells"
    /\ c \in wk[w].todo
    /\ cellMutex[clients[c]] = NoThread
    /\ heap' = [heap EXCEPT ![clients[c]] = CellReset(@, now)]
    /\ wk' = [wk EXCEPT ![w].todo = @ \ {c}]
    /\ UNCHANGED <<now, cellMutex, hResetAlone, clients, activeClients, cfgVars, statVars,
                   clientsMutex, sweeperVars, mainVars, ops, callVars,
                   noteVars>>

\* the four atomic stores, one after the other
ResetStat(w) ==
    /\ \/ /\ wk[w].pc = "resetCells" /\ wk[w].todo = {}
          /\ totalRequests' = 0
          /\ wk' = [wk EXCEPT ![w].pc = "resetAccepted"]
          /\ UNCHANGED <<acceptedRequests, rejectedRequests, totalLatency>>
       \/ /\ wk[w].pc = "resetAccepted"
          /\ acceptedRequests' = 0
          /\ wk' = [wk EXCEPT ![w].pc = "resetRejected"]
          /\ UNCHANGED <<totalRequests, rejectedRequests, totalLatency>>
       \/ /\ wk[w].pc = "resetRejected"
          /\ rejectedRequests' = 0
          /\ wk' = [wk EXCEPT ![w].pc = "resetLatencySum"]
          /\ UNCHANGED <<totalRequests, acceptedRequests, totalLatency>>
       \/ /\ wk[w].pc = "resetLatencySum"
          /\ totalLatency' = 0
          /\ wk' = [wk EXCEPT ![w].pc = "resetLatencyBuf"]
          /\ UNCHANGED <<totalRequests, acceptedRequests, rejectedRequests>>
    /\ UNCHANGED <<now, cellMutex, hResetAlone, regVars, cfgVars, latencyMeasurements, clientsMutex,
                   sweeperVars, mainVars, ops, callVars, noteVars>>

\* latencyMeasurements_.clear() under latencyMutex_, then both locks go
ResetLatency(w) ==
    /\ wk[w].pc = "resetLatencyBuf"
    /\ latencyMeasurements' = <<>>
    /\ clientsMutex' = NoThread
    /\ wk' = [wk EXCEPT ![w] = IdleWorker]
    /\ UNCHANGED <<now, cellMutex, hResetAlone, regVars, cfgVars, totalRequests, acceptedRequests,
                   rejectedRequests, totalLatency, sweeperVars, mainVars, ops,
                   callVars, noteVars>>

\* ---- the cleanup thread (startCleanupThread's lambda) ----
\* while (!shutdownFlag_.load())
LoopExits == shutdownFlag
SweeperLoop ==
    /\ spc = "loop"
    /\ IF LoopExits
       THEN spc' = "done" /\ UNCHANGED swake
       ELSE spc' = "sleep" /\ swake' = now + CleanupInterval
    /\ UNCHANGED <<now, cellMutex, hResetAlone, regVars, cfgVars, statVars, clientsMutex, wk,
                   sthreshold, stodo, mainVars, ops, callVars, noteVars>>

\* sleep_for(cleanupInterval) is over; if (!shutdownFlag_.load())
\* (variant: the flag is not looked at after the sleep)
SkipsCleanupNever == FALSE
SkipsCleanup == shutdownFlag
SweeperWake ==
    /\ spc = "sleep"
    /\ now >= swake
    /\ spc' = IF SkipsCleanup THEN "loop" ELSE "call"
    /\ swake' = 0
    /\ UNCHANGED <<now, cellMutex, hResetAlone, regVars, cfgVars, statVars, clientsMutex, wk,
                   sthreshold, stodo, mainVars, ops, callVars, noteVars>>

\* cleanup() begins: lock, now, threshold
CleanupLock ==
    /\ spc = "call"
    /\ clientsMutex = NoThread
    /\ clientsMutex' = Sweeper
    /\ sthreshold' = now - CleanupInterval
    /\ stodo' = Registered
    /\ spc' = "iter"
    /\ hSweepsAfterFlag' = hSweepsAfterFlag + (IF shutdownFlag THEN 1 ELSE 0)
    /\ UNCHANGED <<now, cellMutex, hResetAlone, regVars, cfgVars, statVars, wk, swake, mainVars, ops,
                   callVars, hLastUpdate, hLastRet, hRefused, hEvicted>>

\* (variant: a cell exactly cleanupInterval old is evicted too)
IsIdleInclusive(cell, threshold) == GetLastAccess(cell) <= threshold
IsIdle(cell, threshold) == GetLastAccess(cell) < threshold

\* one iteration of the loop over clients_
CleanupEntry(c) ==
    /\ spc = "iter"
    /\ c \in stodo
    /\ stodo' = stodo \ {c}
    /\ cellMutex[clients[c]] = NoThread
    /\ IF IsIdle(heap[clients[c]], sthreshold)
       THEN /\ clients' = [clients EXCEPT ![c] = NullPtr]
            /\ heap' = FreeCell(heap, clients[c])
            /\ activeClients' = activeClients - 1
            /\ wk' = MarkDangling(wk, clients[c])
            /\ Hist(c = Tracked, FALSE, FALSE, FALSE)
            /\ hEvicted' = hEvicted \cup {c}
       ELSE UNCHANGED <<regVars, wk, callVars, hEvicted>>
    /\ UNCHANGED <<now, cellMutex, hResetAlone, cfgVars, statVars, clientsMutex, spc, swake,
                   sthreshold, mainVars, ops, hLastUpdate, hLastRet, hRefused,
                   hSweepsAfterFlag>>

\* the loop is over: the lock_guard releases clientsMutex_
CleanupUnlock ==
    /\ spc = "iter"
    /\ stodo = {}
    /\ clientsMutex' = NoThread
    /\ spc' = "loop"
    /\ sthreshold' = 0
    /\ UNCHANGED <<now, cellMutex, hResetAlone, regVars, cfgVars, statVars, wk, swake, stodo,
                   mainVars, ops, callVars, noteVars>>

\* ---- ~RateLimiter -> shutdown(), run by the owner once its callers are done ----
ShutdownSetFlag ==
    /\ mpc = "running"
    /\ \A w \in Workers : wk[w].pc = "idle"
    /\ shutdownFlag' = TRUE
    /\ mpc' = "join"
    /\ UNCHANGED <<now, cellMutex, hResetAlone, regVars, cfgVars, statVars, clientsMutex, wk,
                   sweeperVars, ops, callVars, noteVars>>

\* cleanupThread_->join() returns once the thread function has returned
\* (variant: the thread is not waited for)
JoinReturnsAtOnce == TRUE
JoinReturns == spc = "done"
ShutdownJoin ==
    /\ mpc = "join"
    /\ JoinReturns
    /\ mpc' = "returned"
    /\ UNCHANGED <<now, cellMutex, hResetAlone, regVars, cfgVars, statVars, clientsMutex, wk,
                   sweeperVars, shutdownFlag, ops, callVars, noteVars>>

WorkerNext(w) ==
    \/ \E c \in Clients : AllowRequestGet(w, c)
    \/ \E c \in Clients, n \in Counts : AllowRequestsGet(w, c, n)
    \/ ConsumeStep(w)
    \/ \E c \in Clients, lim \in Limits : UpdateClientLimit(w, c, lim)
    \/ \E c \in Clients : RemoveClient(w, c)
    \/ \E c \in Clients : GetClientStatistics(w, c)
    \/ ResetLock(w)
    \/ \E c \in Clients : ResetCell(w, c)
    \/ ResetStat(w)
    \/ ResetLatency(w)

MetricsNext(w) ==
    \/ StatTotal(w)
    \/ StatVerdict(w)
    \/ RecordLatency(w)
    \/ AddLatency(w)

SweeperNext ==
    \/ SweeperLoop
    \/ SweeperWake
    \/ CleanupLock
    \/ \E c \in Clients : CleanupEntry(c)
    \/ CleanupUnlock

Next ==
    \/ Tick
    \/ \E w \in Workers : WorkerNext(w)
    \/ SweeperNext
    \/ ShutdownSetFlag
    \/ ShutdownJoin

Spec == Init /\ [][Next]_vars

\* the callers of a limiter with metrics on, and the clock (the cleanup thread
\* writes none of the request counters and never the latency buffer)
NextMetrics ==
    \/ Tick
    \/ \E w \in Workers : WorkerNext(w)
    \/ \E w \in Workers : MetricsNext(w)

SpecMetrics == InitMetrics /\ [][NextMetrics]_vars

SpecBusy == InitBusy /\ [][Next]_vars

\* ---- the same limiter with the cell locks taken and released in steps of
\* their own ----
WorkerLocksStep(w) ==
    \/ ConsumeLock(w)
    \/ ConsumeUnlock(w)
    \/ StatisticsRead(w)
    \/ \E c \in Clients : ResetCell(w, c)
    \/ ResetStat(w)
    \/ ResetLatency(w)

WorkerLocksCall(w) ==
    \/ \E c \in Clients : AllowRequestGet(w, c)
    \/ \E c \in Clients : StatisticsLock(w, c)
    \/ \E c \in Clients, lim \in Limits : UpdateClientLimit(w, c, lim)
    \/ \E c \in Clients : RemoveClient(w, c)
    \/ ResetLock(w)

NextLocks ==
    \/ Tick
    \/ \E w \in Workers : WorkerLocksCall(w)
    \/ \E w \in Workers : WorkerLocksStep(w)
    \/ SweeperNext

SpecLocks == Init /\ [][NextLocks]_vars

\* every thread that can take a step is scheduled again
SpecLocksFair ==
    /\ SpecLocks
    /\ \A w \in Workers : WF_vars(WorkerLocksStep(w))
    /\ WF_vars(Tick)
    /\ WF_vars(SweeperNext)

\* ---- one TokenBucket on its own: constructed at time 0 with a positive size
\* and rate, then consume(n), getStatistics and reset in any order ----
TheCell == 1
InitCell ==
    /\ InitCommon
    /\ enableMetrics = FALSE
    /\ \E size \in 1..MaxSize, rate \in 1..MaxRate :
          heap = [a \in Addrs |->
                    IF a = TheCell THEN NewCell(size, rate, 0) ELSE NoCell]
    /\ clients = [c \in Clients |-> NullPtr]
    /\ activeClients = 0

cellFrame == <<clients, activeClients, cfgVars, statVars, clientsMutex,
               cellMutex, wk, sweeperVars, mainVars, ops, hCalls, hTrue,
               hDisturbed, hAccAt, hOnlyRequests, hLastUpdate, hRefused,
               hEvicted, hSweepsAfterFlag, hResetAlone>>

\* consume(n); hExhaustedAt notes when a consume last left the cell empty
CellConsume(n) ==
    /\ heap[TheCell].totalRequests < MaxCalls
    /\ LET r == Consume(heap[TheCell], n, now) IN
        /\ heap' = [heap EXCEPT ![TheCell] = r.cell]
        /\ hLastRet' = r.ok
        /\ hExhaustedAt' = IF r.cell.tokens = 0 THEN now ELSE Never
    /\ UNCHANGED <<now, cellFrame>>

CellGetStatistics ==
    /\ heap' = [heap EXCEPT ![TheCell] = RefillTokens(@, now)]
    /\ UNCHANGED <<now, cellFrame, hLastRet, hExhaustedAt>>

CellResetCall ==
    /\ heap' = [heap EXCEPT ![TheCell] = CellReset(@, now)]
    /\ hExhaustedAt' = Never
    /\ UNCHANGED <<now, cellFrame, hLastRet>>

NextCell ==
    \/ Tick
    \/ \E n \in 0..(MaxSize + 1) : CellConsume(n)
    \/ CellGetStatistics
    \/ CellResetCall

SpecCell == InitCell /\ [][NextCell]_vars

\* the limiter (metrics on) after LatencyCap - 1 calls of allowRequest for one
\* client with the default limits, all at time 0: DefaultBucketSize of them
\* were accepted, and the latency buffer is one sample short of its cap
LoadedCalls == LatencyCap - 1
LoadedBuffer == [i \in 1..LoadedCalls |-> 1 + (i % MaxLatency)]
RECURSIVE SumOf(_, _, _)
SumOf(samples, lo, hi) ==
    IF lo > hi THEN 0
    ELSE IF lo = hi THEN samples[lo]
    ELSE LET mid == (lo + hi) \div 2 IN
         SumOf(samples, lo, mid) + SumOf(samples, mid + 1, hi)
LoadedClient == CHOOSE c \in Clients : c # Tracked
InitLoaded ==
    /\ now = 0
    /\ clientLimits \in InitLimits
    /\ enableMetrics = TRUE
    /\ heap = [a \in Addrs |->
                IF a = 1
                THEN [NewCell(DefaultBucketSize, DefaultRefillRate, 0) EXCEPT
                        !.tokens = 0, !.totalRequests = LoadedCalls,
                        !.acceptedRequests = DefaultBucketSize]
                ELSE NoCell]
    /\ clients = [c \in Clients |-> IF c = LoadedClient THEN 1 ELSE NullPtr]
    /\ activeClients = 1
    /\ totalRequests = LoadedCalls
    /\ acceptedRequests = DefaultBucketSize
    /\ rejectedRequests = LoadedCalls - DefaultBucketSize
    /\ totalLatency = SumOf(LoadedBuffer, 1, LoadedCalls)
    /\ latencyMeasurements = LoadedBuffer
    /\ clientsMutex = NoThread
    /\ cellMutex = [a \in Addrs |-> NoThread]
    /\ wk = [w \in Workers |-> IdleWorker]
    /\ spc = "loop" /\ swake = 0 /\ sthreshold = 0 /\ stodo = {}
    /\ shutdownFlag = FALSE
    /\ mpc = "running"
    /\ ops = 0
    /\ hCalls = 0 /\ hTrue = 0 /\ hDisturbed = FALSE
    /\ hAccAt = NoneAccepted /\ hOnlyRequests = TRUE
    /\ hExhaustedAt = Never
    /\ hLastUpdate = [c \in Clients |-> NoLimit]
    /\ hLastRet = FALSE
    /\ hRefused = 0
    /\ hEvicted = {}
    /\ hSweepsAfterFlag = 0
    /\ hResetAlone = FALSE

SpecLoaded == InitLoaded /\ [][NextMetrics]_vars

\* ======================= claims =======================

\* a step in which worker w's pending consume runs
ConsumeRuns(w) == wk[w].pc = "consume" /\ wk'[w].pc # "consume"

\* a step in which worker w calls allowRequest or allowRequests for client c
RequestStep(w, c) ==
    \/ AllowRequestGet(w, c)
    \/ \E n \in Counts : AllowRequestsGet(w, c, n)

CellOf(c) == heap[clients[c]]

\* C1: while client Tracked's cell (capacity C, refill rate 0) has seen nothing
\* but allowRequest calls for Tracked, and none of them is in flight, exactly
\* min(N, C) of the N calls returned true and getClientStatistics reports
\* tokensRemaining = C - min(N, C), totalRequests = N, acceptedRequests = min(N, C).
C1_NoCallInFlight ==
    \A w \in Workers :
        ~(wk[w].pc = "consume" /\ wk[w].op = "allowRequest"
          /\ wk[w].client = Tracked)
C1_ExactAdmission ==
    (clients[Tracked] # NullPtr /\ ~hDisturbed /\ C1_NoCallInFlight
     /\ CellOf(Tracked).refillRate = 0)
    => LET C == CellOf(Tracked).bucketSize
           N == hCalls
           v == ClientView(Tracked) IN
       /\ hTrue = Min(N, C)
       /\ v.tokensRemaining = C - Min(N, C)
       /\ v.totalRequests = N
       /\ v.acceptedRequests = Min(N, C)

\* C4: a consume performed by a call for client A leaves the cell of every
\* other registered client B (tokens, lastRefillTime, totalRequests,
\* acceptedRequests) unchanged.
C4_Isolation ==
    [][\A w \in Workers :
         ConsumeRuns(w) =>
            \A b \in Clients \ {wk[w].client} :
                clients[b] # NullPtr => heap'[clients[b]] = heap[clients[b]]]_vars

\* C6: a consume always runs against a cell that still exists: no consume is
\* performed through a pointer whose cell has been destroyed.
C6_ConsumeOnLiveCell ==
    [][\A w \in Workers : ConsumeRuns(w) => ~wk[w].dangling]_vars

\* C2: the registry never holds more than maxClients entries, and a request
\* refused because the registry is full removes no entry.
C2_WithinCapacity ==
    /\ [](Cardinality(Registered) <= MaxClients)
    /\ [][\A w \in Workers, c \in Clients :
            (RequestStep(w, c) /\ clients[c] = NullPtr
             /\ Cardinality(Registered) >= MaxClients)
            => (clients' = clients /\ heap' = heap)]_vars
\* a request has been refused by a registry holding maxClients entries
C2_RefusedAtCapacity ==
    hRefused # 0 /\ Cardinality(Registered) = MaxClients

\* C3: with exactly maxClients entries registered, allowRequest or
\* allowRequests for an id without an entry returns false, override or not,
\* creates no cell and leaves the registry as it was.
C3_FullRegistryRejects ==
    [][\A w \in Workers, c \in Clients :
         (RequestStep(w, c) /\ clients[c] = NullPtr
          /\ Cardinality(Registered) = MaxClients)
         => /\ clients' = clients /\ heap' = heap
            /\ activeClients' = activeClients
            /\ \/ wk'[w].pc = "idle" /\ hLastRet' = FALSE
               \/ wk'[w].pc = "statTotal" /\ wk'[w].allowed = FALSE]_vars
\* the id just refused has an override configured
C3_RefusedDespiteOverride ==
    /\ hRefused = Tracked /\ clientLimits[Tracked] # NoLimit
    /\ clients[Tracked] = NullPtr /\ hLastRet = FALSE
    /\ Cardinality(Registered) = MaxClients

\* C5: a request for an id is given the cell the registry already holds for
\* it, creates one only when there is none, and never replaces (and so never
\* strands) the cell another caller for the same id is about to consume from.
C5_InsertIfAbsent ==
    [][\A w \in Workers, c \in Clients :
         RequestStep(w, c) =>
            /\ clients[c] # NullPtr =>
                  (clients' = clients /\ heap' = heap
                   /\ wk'[w].bucket = clients[c])
            /\ \A x \in Workers \ {w} :
                  (wk[x].pc = "consume" /\ wk[x].client = c /\ ~wk[x].dangling)
                  => (wk'[x] = wk[x] /\ wk'[w].bucket = wk[x].bucket)
            /\ \A d \in Clients \ {c} : clients'[d] = clients[d]
            /\ wk'[w].pc = "consume" => clients'[c] = wk'[w].bucket]_vars
\* two callers made the first requests for an id and hold the same, still
\* untouched, cell
C5_TwoFirstCallers ==
    \E c \in Clients, w1, w2 \in Workers :
        /\ w1 # w2
        /\ wk[w1].pc = "consume" /\ wk[w1].client = c
        /\ wk[w2].pc = "consume" /\ wk[w2].client = c
        /\ wk[w1].bucket = clients[c] /\ wk[w2].bucket = clients[c]
        /\ CellOf(c).totalRequests = 0

FreshCell(c, lim) ==
    /\ clients'[c] # NullPtr
    /\ heap'[clients'[c]] = NewCell(lim[1], lim[2], now)

\* C7 as stated: after updateClientLimit(c, capacity, rate), every request for
\* c that finds no cell for it creates a fresh cell with that capacity and
\* rate, full tokens and zeroed counters.
C7_NextRequestFresh ==
    [][\A w \in Workers, c \in Clients :
         (RequestStep(w, c) /\ hLastUpdate[c] # NoLimit /\ clients[c] = NullPtr)
         => FreshCell(c, hLastUpdate[c])]_vars

\* C7 amended: the override updateClientLimit stored stays in the table
\* whatever happens to the cell, and a request for c that finds no cell
\* creates a fresh one with that capacity and rate unless the registry
\* already holds maxClients entries, in which case it is refused.
C7_NextRequestFreshUnlessFull ==
    /\ [](\A c \in Clients :
            hLastUpdate[c] # NoLimit => clientLimits[c] = hLastUpdate[c])
    /\ [][\A w \in Workers, c \in Clients :
            (RequestStep(w, c) /\ hLastUpdate[c] # NoLimit
             /\ clients[c] = NullPtr)
            => IF Cardinality(Registered) < MaxClients
               THEN FreshCell(c, hLastUpdate[c])
               ELSE clients' = clients /\ heap' = heap
                    /\ wk'[w].pc # "consume"]_vars
\* a cell re-created, after an idle eviction, with the updated limits
C7_RecreatedWithOverride ==
    \E c \in Clients :
        /\ hLastUpdate[c] # NoLimit /\ c \in hEvicted /\ clients[c] # NullPtr
        /\ CellOf(c) = NewCell(hLastUpdate[c][1], hLastUpdate[c][2],
                               CellOf(c).lastRefill)

\* what a sweep leaves behind and what it removes
SweepLaw ==
    /\ [](spc = "iter" =>
            \A c \in Registered \ stodo : CellOf(c).lastRefill >= sthreshold)
    /\ [][\A c \in Clients :
            (clientsMutex = Sweeper /\ clients[c] # NullPtr
             /\ clients'[c] = NullPtr)
            => CellOf(c).lastRefill < sthreshold]_vars

\* C8 as stated: a sweep leaves no cell idle for longer than cleanupInterval
\* in the registry and removes no other; the next allowRequest for an evicted
\* id creates a fresh cell, full and with zeroed counters.
C8_EvictedThenFresh ==
    /\ SweepLaw
    /\ [][\A w \in Workers, c \in Clients :
            (AllowRequestGet(w, c) /\ c \in hEvicted /\ clients[c] = NullPtr)
            => FreshCell(c, ResolveLimit(c))]_vars

\* C8 amended: the same, except that the allowRequest for the evicted id is
\* refused, and creates nothing, when the registry holds maxClients entries.
C8_EvictedThenFreshUnlessFull ==
    /\ SweepLaw
    /\ [][\A w \in Workers, c \in Clients :
            (AllowRequestGet(w, c) /\ c \in hEvicted /\ clients[c] = NullPtr)
            => IF Cardinality(Registered) < MaxClients
               THEN FreshCell(c, ResolveLimit(c))
               ELSE clients' = clients /\ heap' = heap
                    /\ wk'[w].pc # "consume"]_vars
\* an evicted id is registered again, with a full and unused cell
C8_EvictedAndBack ==
    \E c \in hEvicted :
        /\ clients[c] # NullPtr
        /\ CellOf(c).tokens = CellOf(c).bucketSize
        /\ CellOf(c).totalRequests = 0 /\ CellOf(c).acceptedRequests = 0

\* C9 as stated: no sweep begins once the shutdown flag is set.
C9_NoSweepAfterFlag == hSweepsAfterFlag = 0

\* C9 amended: once the flag is set the cleanup thread starts no new sleep and
\* passes no further flag check, so at most one sweep begins after the flag:
\* the one whose check preceded it.
C9_OnlyTheSweepAlreadyChecked ==
    /\ [](hSweepsAfterFlag <= 1)
    /\ [][shutdownFlag => (spc' \in {"call", "sleep"} => spc' = spc)]_vars
\* the thread ran that one sweep after the flag and exited
C9_LastSweepThenExit == hSweepsAfterFlag = 1 /\ spc = "done"

\* C10: when shutdown has returned the cleanup thread has exited: it is in no
\* step of a sweep and does not hold the registry lock.
C10_JoinedBeforeReturn ==
    mpc = "returned" => (spc = "done" /\ clientsMutex # Sweeper)
\* shutdown returned after the thread had swept the registry
C10_ReturnedAfterSweeps == mpc = "returned" /\ hEvicted # {}

AllIdle == \A w \in Workers : wk[w].pc = "idle"

\* C11: with metrics on, whenever no operation is in progress, totalRequests =
\* acceptedRequests + rejectedRequests.
C11_CountersAddUp ==
    (enableMetrics /\ AllIdle)
    => totalRequests = acceptedRequests + rejectedRequests

\* C12: when a reset() that ran with no other operation in progress has
\* returned, every registered cell is full with zeroed counters, the global
\* counters are 0, the latency buffer is empty and getLatencyPercentiles
\* returns five zeros; the reset changed neither the set of registered ids nor
\* the override table.
C12_ResetZeroesAll ==
    /\ []((hResetAlone /\ AllIdle) =>
            /\ \A c \in Registered :
                  /\ CellOf(c).tokens = CellOf(c).bucketSize
                  /\ ClientView(c).tokensRemaining = CellOf(c).bucketSize
                  /\ CellOf(c).totalRequests = 0
                  /\ CellOf(c).acceptedRequests = 0
            /\ totalRequests = 0 /\ acceptedRequests = 0
            /\ rejectedRequests = 0 /\ totalLatency = 0
            /\ latencyMeasurements = <<>>
            /\ GetLatencyPercentiles(latencyMeasurements) = <<0, 0, 0, 0, 0>>)
    /\ [][\A w \in Workers :
            (wk[w].op = "reset" \/ wk'[w].op = "reset")
            => (clients' = clients /\ clientLimits' = clientLimits)]_vars
\* a reset that ran alone has returned, after a request had been accepted,
\* counted and its latency recorded
C12_ResetAfterTraffic ==
    /\ hResetAlone /\ AllIdle /\ hLastRet
    /\ Registered # {} /\ totalRequests = 0 /\ latencyMeasurements = <<>>

\* C17: the latency buffer never holds more than LatencyCap samples; recording
\* a sample appends it, and drops the oldest sample and no other when the
\* buffer already held LatencyCap; no step other than reset's clear touches
\* the buffer.
C17_BoundedFifo ==
    /\ [](Len(latencyMeasurements) <= LatencyCap)
    /\ [][\A w \in Workers :
            RecordLatency(w) =>
               latencyMeasurements' =
                  IF Len(latencyMeasurements) < LatencyCap
                  THEN Append(latencyMeasurements, wk'[w].latency)
                  ELSE Append(Tail(latencyMeasurements), wk'[w].latency)]_vars
    /\ [][latencyMeasurements' # latencyMeasurements
          => \E w \in Workers : RecordLatency(w) \/ ResetLatency(w)]_vars
\* the buffer is full and the oldest of the samples it was loaded with is gone
C17_OldestDropped ==
    /\ Len(latencyMeasurements) = LatencyCap
    /\ SubSeq(latencyMeasurements, 1, LatencyCap - 2)
         = SubSeq(LoadedBuffer, 2, LoadedCalls)

\* C13: getClientStatistics for an id without an entry returns the snapshot of
\* a full, untouched default cell (tokensRemaining = the default capacity,
\* counters 0), creates no entry and changes no counter.
C13_DefaultViewIsFull ==
    [][\A w \in Workers, c \in Clients :
         (GetClientStatistics(w, c) /\ ~Found(c))
         => /\ ClientView(c) =
                 GetStatistics(NewCell(DefaultBucketSize, DefaultRefillRate, now),
                               now)
            /\ clients' = clients /\ heap' = heap
            /\ activeClients' = activeClients
            /\ totalRequests' = totalRequests]_vars

\* C18: whenever the registry lock is free, activeClients is the number of
\* entries in the registry.
C18_ActiveClientsIsSize ==
    clientsMutex = NoThread => activeClients = Cardinality(Registered)

\* the number of allowRequest calls for Tracked answered true at times t1..t2
RECURSIVE AcceptedIn(_, _)
AcceptedIn(t1, t2) ==
    IF t1 > t2 THEN 0 ELSE hAccAt[t2] + AcceptedIn(t1, t2 - 1)
WithinRate ==
    \A t1 \in 0..now, t2 \in 0..now :
        t1 <= t2 =>
            AcceptedIn(t1, t2)
                <= ResolveLimit(Tracked)[1] + ResolveLimit(Tracked)[2] * (t2 - t1)

C14_ReplenishmentLaw ==
    /\ [][CellGetStatistics =>
            LET cell == heap[TheCell]
                e == now - cell.lastRefill IN
            /\ e > 0 =>
                  /\ heap'[TheCell].tokens =
                        Min(cell.bucketSize, cell.tokens + e * cell.refillRate)
                  /\ heap'[TheCell].lastRefill = now
            /\ e <= 0 => heap'[TheCell] = cell
            /\ heap'[TheCell].tokens >= cell.tokens]_vars
    /\ [][\A n \in 0..(MaxSize + 1) :
            CellConsume(n) =>
               LET cell == heap[TheCell]
                   e == now - cell.lastRefill
                   taken == IF hLastRet' THEN n ELSE 0 IN
               /\ heap'[TheCell].lastRefill = (IF e > 0 THEN now ELSE cell.lastRefill)
               /\ heap'[TheCell].tokens + taken =
                     (IF e > 0
                      THEN Min(cell.bucketSize, cell.tokens + e * cell.refillRate)
                      ELSE cell.tokens)]_vars
    /\ []((hExhaustedAt # Never
            /\ (now - hExhaustedAt) * heap[TheCell].refillRate
                  >= heap[TheCell].bucketSize)
           => GetStatistics(heap[TheCell], now).tokensRemaining
                 = heap[TheCell].bucketSize)
\* an emptied cell whose snapshot, taken capacity / refillRate seconds or more
\* later, shows it full again
C14_RefilledAfterWait ==
    /\ hExhaustedAt # Never /\ now > hExhaustedAt
    /\ (now - hExhaustedAt) * heap[TheCell].refillRate >= heap[TheCell].bucketSize
    /\ heap[TheCell].lastRefill = now
    /\ heap[TheCell].tokens = heap[TheCell].bucketSize
    /\ heap[TheCell].bucketSize > 1

\* C15: a cell created with positive capacity and rate always has
\* 0 <= tokens <= capacity and acceptedRequests <= totalRequests, whatever
\* consume(n), n >= 0, getStatistics and reset did to it; a rejected
\* consume(n) leaves the tokens at their value after its refill step.
C15_CellInvariant ==
    /\ [](/\ 0 <= heap[TheCell].tokens
           /\ heap[TheCell].tokens <= heap[TheCell].bucketSize
           /\ 0 <= heap[TheCell].acceptedRequests
           /\ heap[TheCell].acceptedRequests <= heap[TheCell].totalRequests)
    /\ [][\A n \in 0..(MaxSize + 1) :
            (CellConsume(n) /\ ~hLastRet')
            => /\ heap'[TheCell].tokens = RefillTokens(heap[TheCell], now).tokens
               /\ heap'[TheCell].tokens < n
               /\ heap'[TheCell].acceptedRequests
                     = heap[TheCell].acceptedRequests]_vars
\* a consume(n) with n above the capacity was rejected by a full cell
C15_RejectedAboveCapacity ==
    /\ now = 0 /\ ~hLastRet
    /\ heap[TheCell].tokens = heap[TheCell].bucketSize
    /\ heap[TheCell].totalRequests > heap[TheCell].acceptedRequests

\* thread t has asked for the mutex of a cell that another thread holds
WaitsForCell(t) ==
    \/ /\ wk[t].pc = "statsCell"
       /\ cellMutex[wk[t].bucket] \notin {NoThread, t}
    \/ /\ wk[t].pc = "resetCells" /\ wk[t].todo # {}
       /\ \A c \in wk[t].todo : cellMutex[clients[c]] \notin {NoThread, t}

\* C16: no thread waits for a cell's lock while it holds the registry lock.
C16_NoCellWaitUnderRegistryLock ==
    \A t \in Workers : clientsMutex = t => ~WaitsForCell(t)

\* C19: every operation a worker has invoked eventually returns.
C19_EveryCallReturns ==
    \A w \in Workers : (wk[w].pc # "idle") ~> (wk[w].pc = "idle")

====
